---- MODULE Spec2Model ----
(***************************************************************************)
(* State-machine model of moseoa/c4d-music-particles.                      *)
(*                                                                         *)
(*   - ParticleSystem of src/src/ParticleSystem.js (the morph controller   *)
(*     and the position buffer);                                           *)
(*   - the enhanced AudioAnalyzer of src/src/main.js (band levels and the  *)
(*     beat detector);                                                     *)
(*   - App.animate of src/src/main.js, which polls the analyzer and feeds  *)
(*     the particle system;                                                *)
(*   - the beat-triggered morph of the ParticleSystem of                   *)
(*     src/unnamed/part_000.                                               *)
(*                                                                         *)
(* Numbers.  The morph scalar and the morph speed are kept in hundredths   *)
(* (1.0 is 100, 0.01 is 1).  A JavaScript number that is NaN is the value  *)
(* NaN, a missing property is UNDEF; arithmetic and comparisons on them    *)
(* follow IEEE-754 / ECMAScript (NaN propagates, every comparison with NaN *)
(* is false).  Entries of the Float32Array buffers are kept by class:      *)
(* "fin" (a finite number) or "nan".  The morph factors of part_000 are    *)
(* kept in hundredths, each increment truncated to a hundredth.            *)
(***************************************************************************)
EXTENDS Integers, Sequences, FiniteSets, TLC

VARIABLES
    \* ---- ParticleSystem (src/src/ParticleSystem.js) ----
    params,            \* this.params: count, autoMorph, morphSpeed
    positions,         \* this.positions, one class per float
    scatterPositions,  \* this.scatterPositions, one class per float
    modelPositions,    \* this.modelPositions: NULL or one class per float
    colors,            \* this.colors: which routine wrote each particle's colour
    mouse,             \* this.mouse: "offscreen" (9999,9999) or "onscreen"
    morphTarget,       \* this.morphTarget, in hundredths, or NaN
    morphSpeed,        \* this.morphSpeed, in hundredths
    autoMorphOnBeat,   \* this.autoMorphOnBeat
    morphDirection,    \* this.morphDirection
    morphPauseFrames,  \* this.morphPauseFrames
    \* ---- history (not program state) ----
    lastOp,            \* the last operation on the particle system
    sinceFlip,         \* update ticks since the last beat-triggered flip, -1: none yet
    flips,             \* beat-triggered flips so far, counted up to 2
    tog,               \* update ticks since the toggleMorph() of the ten-tick scenario, -1: none
    \* ---- AudioAnalyzer (src/src/main.js, the class of lines 593-817) ----
    analyser,          \* this.analyser exists (with dataArray, bufferLength, gainNode)
    audioElement,      \* this.audioElement: 0 for null, else the element's number
    source,            \* this.source: 0 for null, else the element it was created from
    pending,           \* elements whose loadAudio() still awaits canplaythrough
    isPlaying,         \* this.isPlaying
    dataArray,         \* this.dataArray: the byte level of each range of bins
    bass,              \* this.bass, in 1/10000
    mid,               \* this.mid, in 1/10000
    treble,            \* this.treble, in 1/10000
    lastBeatTime,      \* this.lastBeatTime, ms
    beatEnergy,        \* this.beatEnergy, in 1/178500 (bass byte sum times 100)
    isBeat,            \* this.isBeat
    energyHistory,     \* this.energyHistory, each sample the bass byte sum (energy * 1785)
    now,               \* performance.now() at the last analysed frame, ms
    bufferLength,      \* this.bufferLength: the analyser's frequencyBinCount
    smoothing,         \* this.smoothing, in hundredths
    scenario,          \* the scripted input of SpecScenarios, "none" elsewhere
    handed,            \* what the last App.animate handed to particleSystem.update
    \* ---- history (not program state) ----
    beatLog,           \* the timestamps of the frames that reported isBeat
    frames,            \* frames analysed so far
    \* ---- the version of the ParticleSystem class ----
    build,             \* "ParticleSystem.js" (src/src) or "part_000" (src/unnamed)
    scatterDist,       \* part_000: the distance of the scatter position of
                       \* particle 0 from the origin, in thousandths
    morphFactors,      \* part_000: this.morphFactors, in hundredths; else <<>>
    loadedModel,       \* part_000: this.model: "null", "empty" (no vertex) or "shape"
    targetPositions,   \* part_000: this.targetPositions: which routine wrote each float
    settings,          \* part_000: this.settings: colorMode, gradient (colorStart/End)
    colorValues,       \* part_000: this.colors, each component in hundredths
    originalColors     \* part_000: this.originalColors, in hundredths

psVars == <<params, positions, scatterPositions, modelPositions, colors, mouse,
            morphTarget, morphSpeed, autoMorphOnBeat, morphDirection,
            morphPauseFrames>>
histVars == <<lastOp, sinceFlip, flips, tog>>
configVars == <<bufferLength, smoothing, scenario, handed>>
audioVars == <<analyser, audioElement, source, pending, isPlaying, dataArray,
               bass, mid, treble, lastBeatTime, beatEnergy, isBeat,
               energyHistory, now, beatLog, frames, configVars>>
shapeVars == <<loadedModel, targetPositions, settings>>
colorVars == <<colorValues, originalColors>>
variantVars == <<build, scatterDist, morphFactors, shapeVars, colorVars>>
vars == <<psVars, histVars, audioVars, variantVars>>

(***************************************************************************)
(* Bounds of the model.                                                    *)
(***************************************************************************)
InitCount == 1      \* stands for params.count = 100000 at construction
MaxCount == 2       \* largest particle count updateParticleCount is given

Counts == 1..MaxCount
Speeds == {0, 2, 10, 150}        \* setMorphSpeed arguments: 0, 0.02, 0.1, 1.5
Models == {"null", "empty", "shape"}

(***************************************************************************)
(* ECMAScript numbers.                                                     *)
(***************************************************************************)
NaN == -1000001
UNDEF == -1000002
NULL == <<"null">>

IsNum(x) == x # NaN /\ x # UNDEF

\* a + b
JsAdd(a, b) == IF IsNum(a) /\ IsNum(b) THEN a + b ELSE NaN
\* d * s, d a plain integer (the direction), s in hundredths
JsMul(d, s) == IF IsNum(d) /\ IsNum(s) THEN d * s ELSE NaN
JsGe(a, b) == IsNum(a) /\ IsNum(b) /\ a >= b
JsLe(a, b) == IsNum(a) /\ IsNum(b) /\ a <= b
JsLt(a, b) == IsNum(a) /\ IsNum(b) /\ a < b
JsGt(a, b) == IsNum(a) /\ IsNum(b) /\ a > b
\* Math.min / Math.max return NaN when an argument is NaN
JsMin(a, b) == IF IsNum(a) /\ IsNum(b) THEN (IF a < b THEN a ELSE b) ELSE NaN
JsMax(a, b) == IF IsNum(a) /\ IsNum(b) THEN (IF a > b THEN a ELSE b) ELSE NaN
\* THREE.MathUtils.clamp(value, min, max) = Math.max(min, Math.min(max, value))
Clamp(value, min, max) == JsMax(min, JsMin(max, value))

\* class of THREE.MathUtils.lerp(x, y, t) = (1 - t) * x + t * y
LerpClass(x, y, tIsNum) ==
    IF x = "fin" /\ y = "fin" /\ tIsNum THEN "fin" ELSE "nan"

\* a typed array read: array[k] for the 1-based position k, "undef" past the end
ReadAt(array, k) == IF k \in DOMAIN array THEN array[k] ELSE "undef"

Particles(count) == 0..(count - 1)

(***************************************************************************)
(* ParticleSystem: construction.                                           *)
(***************************************************************************)
\* createParticles(): fresh buffers of 3 * count random finite floats
FreshFloats(count) == [k \in 1..(3 * count) |-> "fin"]
FreshColors(count) == [i \in 1..count |-> "palette"]

PSInit ==
    /\ params = [count |-> InitCount, autoMorph |-> FALSE, morphSpeed |-> UNDEF]
    /\ positions = FreshFloats(InitCount)
    /\ scatterPositions = FreshFloats(InitCount)
    /\ modelPositions = NULL
    /\ colors = FreshColors(InitCount)
    /\ mouse = "offscreen"
    /\ morphTarget = 0
    /\ morphSpeed = 2
    /\ autoMorphOnBeat = TRUE
    /\ morphDirection = -1
    /\ morphPauseFrames = 0

HistInit ==
    /\ lastOp = "new"
    /\ sinceFlip = -1
    /\ flips = 0
    /\ tog = -1

(***************************************************************************)
(* ParticleSystem: the methods.  The class body defines setMorphSpeed,     *)
(* setAutoMorphOnBeat and toggleMorph twice; the later definition of each  *)
(* is the one the class keeps, so it is the one the actions use.           *)
(***************************************************************************)
\* toggleMorph() of lines 348-354, replaced by the later definition
ToggleByPosition(mt, d) == IF JsGe(mt, 50) THEN -1 ELSE 1

\* toggleMorph() of lines 407-409: this.morphDirection *= -1
ToggleDirection(mt, d) == d * (-1)

\* the cooldown armed by a beat-triggered flip
PauseArm == 60

\* the history of the ten-tick scenario: a toggleMorph() that sets direction +1
\* with a shape loaded, morph speed 0.1 and the scalar at the scattered end
\* (0, or the 0.01 setModel leaves)
StartsScenario(d) ==
    /\ modelPositions # NULL
    /\ morphSpeed = 10
    /\ d = 1
    /\ JsLe(morphTarget, 1)

ToggleMorph ==
    /\ morphDirection' = ToggleDirection(morphTarget, morphDirection)
    /\ lastOp' = "toggleMorph"
    /\ tog' = IF StartsScenario(morphDirection') THEN 0 ELSE -1
    /\ UNCHANGED <<params, positions, scatterPositions, modelPositions, colors,
                   mouse, morphTarget, morphSpeed, autoMorphOnBeat,
                   morphPauseFrames, sinceFlip, flips>>

\* setMorphSpeed(s) of lines 401-403: this.morphSpeed = s
SetMorphSpeed(s) ==
    /\ morphSpeed' = s
    /\ lastOp' = "setMorphSpeed"
    /\ tog' = -1
    /\ UNCHANGED <<params, positions, scatterPositions, modelPositions, colors,
                   mouse, morphTarget, autoMorphOnBeat, morphDirection,
                   morphPauseFrames, sinceFlip, flips>>

\* setAutoMorphOnBeat(b) of lines 410-412: this.autoMorphOnBeat = b
SetAutoMorphOnBeat(b) ==
    /\ autoMorphOnBeat' = b
    /\ lastOp' = "setAutoMorphOnBeat"
    /\ tog' = -1
    /\ UNCHANGED <<params, positions, scatterPositions, modelPositions, colors,
                   mouse, morphTarget, morphSpeed, morphDirection,
                   morphPauseFrames, sinceFlip, flips>>

\* setMouse(x, y): the pointer enters the scene
SetMouse ==
    /\ mouse' = "onscreen"
    /\ lastOp' = "setMouse"
    /\ tog' = -1
    /\ UNCHANGED <<params, positions, scatterPositions, modelPositions, colors,
                   morphTarget, morphSpeed, autoMorphOnBeat, morphDirection,
                   morphPauseFrames, sinceFlip, flips>>

\* setModel(model): model is null, a scene with no mesh vertex, or a shape
SetModel(model) ==
    /\ \/ /\ model = "null"
          /\ modelPositions' = NULL
          /\ morphTarget' = 0
          /\ morphDirection' = -1
          /\ UNCHANGED colors
       \/ /\ model = "empty"          \* vertices.length = 0: nothing is assigned
          /\ UNCHANGED <<modelPositions, morphTarget, morphDirection, colors>>
       \/ /\ model = "shape"          \* a vertex plus jitter for each particle
          /\ modelPositions' = FreshFloats(params.count)
          /\ morphTarget' = 1
          /\ morphDirection' = 1
          /\ colors' = [i \in 1..params.count |-> "height"]
    /\ lastOp' = "setModel"
    /\ tog' = -1
    /\ UNCHANGED <<params, positions, scatterPositions, mouse, morphSpeed,
                   autoMorphOnBeat, morphPauseFrames, sinceFlip, flips>>

\* updateParticleCount(c): init() -> createParticles() when the count changes
UpdateParticleCount(c) ==
    /\ IF c # params.count
       THEN /\ params' = [params EXCEPT !.count = c]
            /\ positions' = FreshFloats(c)
            /\ scatterPositions' = FreshFloats(c)
            /\ colors' = FreshColors(c)
       ELSE UNCHANGED <<params, positions, scatterPositions, colors>>
    /\ lastOp' = "updateParticleCount"
    /\ tog' = -1
    /\ UNCHANGED <<modelPositions, mouse, morphTarget, morphSpeed,
                   autoMorphOnBeat, morphDirection, morphPauseFrames, sinceFlip, flips>>

(***************************************************************************)
(* ParticleSystem.update(audioData), lines 414-580.                        *)
(***************************************************************************)
\* lines 421-431: the first morph advance, by this.params.morphSpeed
AdvanceByParams(mt, d) ==
    IF d # 0
    THEN LET moved == JsAdd(mt, JsMul(d, params.morphSpeed))
         IN  IF JsGe(moved, 100) THEN [mt |-> 100, d |-> 0]
             ELSE IF JsLe(moved, 0) THEN [mt |-> 0, d |-> 0]
             ELSE [mt |-> moved, d |-> d]
    ELSE [mt |-> mt, d |-> d]

\* lines 432-441: auto morph of this.params.autoMorph, through toggleMorph();
\* rndBack is Math.random() < 0.01
AutoMorph(mt, d, adIsBeat, rndBack) ==
    IF params.autoMorph /\ adIsBeat /\ JsLt(mt, 10)
    THEN [d |-> ToggleDirection(mt, d), byBeat |-> TRUE]
    ELSE IF params.autoMorph /\ JsGt(mt, 90) /\ rndBack
    THEN [d |-> ToggleDirection(mt, d), byBeat |-> FALSE]
    ELSE [d |-> d, byBeat |-> FALSE]

\* a beat flip that does not look at the cooldown counter
BeatFlipsAnyFrame(adBeat, rnd) ==
    autoMorphOnBeat /\ adBeat /\ rnd

\* lines 451-453: a beat flips the direction; rnd is Math.random() > 0.7
BeatFlips(adBeat, rnd) ==
    autoMorphOnBeat /\ adBeat /\ morphPauseFrames <= 0 /\ rnd

\* lines 460-466: the second morph advance, by this.morphSpeed, clamped
AdvanceClamped(mt, d) ==
    IF modelPositions # NULL
    THEN Clamp(JsAdd(mt, JsMul(d, morphSpeed)), 0, 100)
    ELSE 0

\* lines 485-507: the class of the target coordinate tx / ty / tz
TargetClass(k, mt) ==
    IF modelPositions # NULL
    THEN LerpClass(scatterPositions[k], ReadAt(modelPositions, k), IsNum(mt))
    ELSE scatterPositions[k]

\* lines 530-549: the class of the mouse force on coordinate k; a particle in
\* hits lies exactly under the pointer (dist = 0, so dx / dist is 0 / 0), the
\* z force is a random multiple of the finite force
MouseForceClass(k, hits) ==
    IF ((k - 1) \div 3) \in hits /\ ((k - 1) % 3) \in {0, 1} THEN "nan" ELSE "fin"

\* the particles the pointer can lie exactly on: it is on screen and their
\* x and y are numbers (distSq < 16 is false for NaN)
CanHit ==
    IF mouse = "onscreen"
    THEN {i \in Particles(params.count) :
            positions[3 * i + 1] = "fin" /\ positions[3 * i + 2] = "fin"}
    ELSE {}

\* lines 557-571: positions[k] = lerp(positions[k], target + curl + force, 0.05);
\* curlNoise() normalises with length() || 1, so it is finite for finite input
MovedClass(k, mt, hits) ==
    IF TargetClass(k, mt) = "fin" /\ MouseForceClass(k, hits) = "fin"
    THEN LerpClass(positions[k], "fin", TRUE)
    ELSE "nan"

Update(adIsBeat, adBeat, rndFlip, rndBack, hits) ==
    LET a1 == AdvanceByParams(morphTarget, morphDirection)
        a2 == AutoMorph(a1.mt, a1.d, adIsBeat, rndBack)
        flip == BeatFlips(adBeat, rndFlip)
        d3 == IF flip THEN a2.d * (-1) ELSE a2.d
        p1 == IF flip THEN PauseArm ELSE morphPauseFrames
        mt3 == AdvanceClamped(a1.mt, d3)
    IN  /\ hits \subseteq CanHit
        /\ morphDirection' = d3
        /\ morphPauseFrames' = IF p1 > 0 THEN p1 - 1 ELSE p1
        /\ morphTarget' = mt3
        /\ positions' = [k \in DOMAIN positions |-> MovedClass(k, mt3, hits)]
        /\ lastOp' = "update"
        /\ sinceFlip' = IF flip \/ a2.byBeat THEN 0
                        ELSE IF sinceFlip \in 0..(PauseArm - 1) THEN sinceFlip + 1
                        ELSE sinceFlip
        /\ flips' = IF (flip \/ a2.byBeat) /\ flips < 2 THEN flips + 1 ELSE flips
        /\ tog' = IF tog \in 0..9 /\ ~(flip \/ a2.byBeat) THEN tog + 1 ELSE -1
        /\ UNCHANGED <<params, scatterPositions, modelPositions, colors, mouse,
                       morphSpeed, autoMorphOnBeat>>

\* Math.random() is drawn only where the code reaches the call
FlipDraws(adBeat) == IF BeatFlips(adBeat, TRUE) THEN BOOLEAN ELSE {FALSE}
BackDraws == IF params.autoMorph THEN BOOLEAN ELSE {FALSE}

\* update(audioData) for any audioData.isBeat (adIsBeat) and audioData.beat (adBeat)
UpdateAny ==
    \E adIsBeat, adBeat \in BOOLEAN :
        \E rndFlip \in FlipDraws(adBeat), rndBack \in BackDraws :
            \E hits \in SUBSET CanHit :
                Update(adIsBeat, adBeat, rndFlip, rndBack, hits)

\* update({}) : no beat in audioData
UpdateQuiet ==
    \E rndBack \in BackDraws, hits \in SUBSET CanHit :
        Update(FALSE, FALSE, FALSE, rndBack, hits)

(***************************************************************************)
(* AudioAnalyzer (src/src/main.js, lines 593-817).                         *)
(*                                                                         *)
(* A spectrum is given by the byte level of the bass bins 0..6, of the mid *)
(* bins 7..40 and of the treble bins 41..127; the bins from 128 on are 0.  *)
(* The energy handed to _detectBeat is kept exactly, as the sum of the     *)
(* seven bass bytes (rawBass = sum / 7 / 255), and the comparisons of      *)
(* _detectBeat are cross-multiplied; the smoothed levels are kept in       *)
(* 1/10000, rounded down.                                                  *)
(***************************************************************************)
beatThreshold == 45          \* this.beatThreshold = 0.45, in hundredths
beatDecay == 98              \* this.beatDecay = 0.98, in hundredths
beatMinInterval == 200       \* this.beatMinInterval, ms
energyHistoryMax == 60       \* this.energyHistoryMax
smoothingDefault == 82       \* this.smoothing = 0.82, in hundredths
frequencyBinCount == 256     \* analyser.frequencyBinCount for fftSize 512
bassEnd == 7
midEnd == 41
trebleCap == 128

MaxFrames == 4               \* analysed frames in a run of the analyzer
MaxAppFrames == 2            \* analysed frames in a run of the application
MaxLoads == 2                \* audio files loaded in a run

Spectra ==
    { [bass |-> 0, mid |-> 0, treble |-> 0],
      [bass |-> 120, mid |-> 60, treble |-> 30],
      [bass |-> 255, mid |-> 128, treble |-> 64] }
FrameGaps == {0, 100, 201}   \* ms between two analysed frames

AudioInit ==
    /\ analyser = FALSE
    /\ audioElement = 0
    /\ source = 0
    /\ pending = {}
    /\ isPlaying = FALSE
    /\ dataArray = NULL
    /\ bass = 0
    /\ mid = 0
    /\ treble = 0
    /\ lastBeatTime = 0
    /\ beatEnergy = 0
    /\ isBeat = FALSE
    /\ energyHistory = <<>>
    /\ now = 0
    /\ beatLog = <<>>
    /\ frames = 0

\* frequencyData = null (main.js:372) and the absent frequencyData of
\* part_000's update: no bin can be read
NoData == [bass |-> UNDEF, mid |-> UNDEF, treble |-> UNDEF]

\* before the first App.animate nothing has been handed over; tick is the
\* parity of the animate calls so far and reads the number of
\* getByteFrequencyData calls of the last one (history, not program state)
NoHandOver ==
    [tick |-> 0, reads |-> 0, audioLevel |-> 0, frequencyData |-> NoData,
     bass |-> 0, mid |-> 0, treble |-> 0, isBeat |-> FALSE]

\* the analyser of loadAudio (fftSize 512) and the constructor's smoothing
ConfigInit ==
    /\ bufferLength = frequencyBinCount
    /\ smoothing = smoothingDefault
    /\ scenario = "none"
    /\ handed = NoHandOver

\* loadAudio(file) up to its await, lines 629-659
LoadAudioStart ==
    /\ audioElement < MaxLoads
    /\ audioElement' = audioElement + 1
    /\ source' = 0
    /\ pending' = pending \cup {audioElement + 1}
    /\ UNCHANGED <<analyser, isPlaying, dataArray, bass, mid, treble,
                   lastBeatTime, beatEnergy, isBeat, energyHistory, now,
                   beatLog, frames>>

\* loadAudio(file) after canplaythrough of element e, lines 661-679
\* (line 676 creates the source from this.audioElement as it is by then;
\* where that element already has a source, createMediaElementSource throws
\* and this.source stays the source of that same element)
LoadAudioDone(e) ==
    /\ e \in pending
    /\ pending' = pending \ {e}
    /\ analyser' = TRUE
    /\ dataArray' = IF analyser THEN dataArray
                    ELSE [bass |-> 0, mid |-> 0, treble |-> 0]
    /\ source' = audioElement
    /\ UNCHANGED <<audioElement, isPlaying, bass, mid, treble, lastBeatTime,
                   beatEnergy, isBeat, energyHistory, now, beatLog, frames>>

\* play(), lines 686-693
Play ==
    /\ isPlaying' = IF audioElement # 0 THEN TRUE ELSE isPlaying
    /\ UNCHANGED <<analyser, audioElement, source, pending, dataArray, bass,
                   mid, treble, lastBeatTime, beatEnergy, isBeat,
                   energyHistory, now, beatLog, frames>>

\* pause(), lines 695-699
Pause ==
    /\ isPlaying' = IF audioElement # 0 THEN FALSE ELSE isPlaying
    /\ UNCHANGED <<analyser, audioElement, source, pending, dataArray, bass,
                   mid, treble, lastBeatTime, beatEnergy, isBeat,
                   energyHistory, now, beatLog, frames>>

\* a read that never returns less than 1
DataAtNoisy(data, i) ==
    IF i >= bufferLength THEN UNDEF
    ELSE IF i < bassEnd /\ data.bass > 0 THEN data.bass
    ELSE 1

\* this.dataArray[i]: undefined from bufferLength on
DataAt(data, i) ==
    IF i >= bufferLength THEN UNDEF
    ELSE IF i < bassEnd THEN data.bass
    ELSE IF i < midEnd THEN data.mid
    ELSE IF i < trebleCap THEN data.treble
    ELSE 0

\* how many of the bins start..end-1 lie in lo..hi-1
Overlap(start, end, lo, hi) ==
    LET from == IF start > lo THEN start ELSE lo
        to == IF end < hi THEN end ELSE hi
    IN  IF to > from THEN to - from ELSE 0

\* what the bins of start..end-1 that lie in lo..hi-1 add to the sum; the
\* bins of one range hold one level
RunSum(data, start, end, lo, hi) ==
    IF Overlap(start, end, lo, hi) = 0 THEN 0
    ELSE Overlap(start, end, lo, hi) * DataAt(data, lo)

\* the loop of _bandAverage(start, end) and of getAverageFrequency over bins
\* that all exist: the sum of the bins start..end-1, taken range by range
BinsSum(data, start, end) ==
    RunSum(data, start, end, 0, bassEnd)
    + RunSum(data, start, end, bassEnd, midEnd)
    + RunSum(data, start, end, midEnd, trebleCap)
    + RunSum(data, start, end, trebleCap, end)

\* the loop of _bandAverage(start, end): the sum of the bins start..end-1,
\* NaN once a bin read is undefined
BandSum(data, start, end) ==
    IF \E i \in start..(end - 1) : ~IsNum(DataAt(data, i)) THEN NaN
    ELSE BinsSum(data, start, end)

\* _bandAverage(start, end) = sum / (end - start) / 255, in 1/10000; 0 / 0 and
\* NaN / n are NaN, 0 / -n is -0
BandAverage(data, start, end) ==
    LET sum == BandSum(data, start, end)
    IN  IF ~IsNum(sum) \/ end = start THEN NaN
        ELSE IF end < start THEN 0
        ELSE (sum * 10000) \div ((end - start) * 255)

\* line 731: Math.min(128, this.bufferLength)
TrebleEnd == IF trebleCap < bufferLength THEN trebleCap ELSE bufferLength

\* a smoothing that adds the whole raw level
SmoothUnweighted(level, raw) ==
    IF IsNum(level) /\ IsNum(raw)
    THEN (level * smoothing + raw * 100) \div 100
    ELSE NaN

\* smoothed * s + raw * (1 - s), lines 738-741
Smooth(level, raw) ==
    IF IsNum(level) /\ IsNum(raw)
    THEN (level * smoothing + raw * (100 - smoothing)) \div 100
    ELSE NaN

RECURSIVE SeqSum(_)
SeqSum(seq) == IF seq = <<>> THEN 0 ELSE Head(seq) + SeqSum(Tail(seq))

\* a history that drops the newest sample when full
PushedKeepOldest(history, energy) ==
    LET grown == Append(history, energy)
    IN  IF Len(grown) > energyHistoryMax
        THEN SubSeq(grown, 1, energyHistoryMax) ELSE grown

\* lines 792-795: push, then shift when longer than energyHistoryMax
Pushed(history, energy) ==
    LET grown == Append(history, energy)
    IN  IF Len(grown) > energyHistoryMax THEN Tail(grown) ELSE grown

\* a test any sound passes
AboveSilence(history, energy) == energy > 0

\* the threshold test with the mean taken before the current sample is pushed
AboveAdaptiveBefore(history, energy) ==
    LET before == SubSeq(history, 1, Len(history) - 1)
    IN  /\ before # <<>>
        /\ \A k \in DOMAIN before : IsNum(before[k])
        /\ energy * 100 > beatThreshold * (bassEnd * 255)
        /\ 10 * Len(before) * energy > 14 * SeqSum(before)

\* lines 798-800 and 804: energy > Math.max(beatThreshold, avg * 1.4), with
\* energy = sum / 1785 and avg the mean of the history
AboveAdaptive(history, energy) ==
    /\ \A k \in DOMAIN history : IsNum(history[k])
    /\ energy * 100 > beatThreshold * (bassEnd * 255)
    /\ 10 * Len(history) * energy > 14 * SeqSum(history)

\* line 806: now - this.lastBeatTime > this.beatMinInterval
RefractoryOverAtOrAfter(t) == t - lastBeatTime >= beatMinInterval
RefractoryOver(t) == t - lastBeatTime > beatMinInterval

\* a detector whose flag, once set, stays set
DetectBeatLatched(energy, t) ==
    LET history == Pushed(energyHistory, energy)
        beat == /\ AboveAdaptive(history, energy)
                /\ JsGt(energy * 100, beatEnergy)
                /\ RefractoryOver(t)
    IN  [history |-> history,
         isBeat |-> beat \/ isBeat,
         lastBeatTime |-> IF beat THEN t ELSE lastBeatTime,
         beatEnergy |-> JsMul(energy, beatDecay)]

\* _detectBeat(energy) at performance.now() = t, lines 790-816
DetectBeat(energy, t) ==
    LET history == Pushed(energyHistory, energy)
        beat == /\ AboveAdaptive(history, energy)
                /\ JsGt(energy * 100, beatEnergy)
                /\ RefractoryOver(t)
    IN  [history |-> history,
         isBeat |-> beat,
         lastBeatTime |-> IF beat THEN t ELSE lastBeatTime,
         beatEnergy |-> JsMul(energy, beatDecay)]

\* update() with the spectrum the analyser holds, gap ms after the last
\* analysed frame; lines 715-745
AnalyzerUpdate(spectrum, gap) ==
    IF ~analyser \/ ~isPlaying
    THEN /\ isBeat' = FALSE
         /\ UNCHANGED <<analyser, audioElement, source, pending, isPlaying,
                        dataArray, bass, mid, treble, lastBeatTime,
                        beatEnergy, energyHistory, now, beatLog, frames>>
    ELSE LET t == now + gap
             r == DetectBeat(BandSum(spectrum, 0, bassEnd), t)
         IN  /\ dataArray' = spectrum
             /\ bass' = Smooth(bass, BandAverage(spectrum, 0, bassEnd))
             /\ mid' = Smooth(mid, BandAverage(spectrum, bassEnd, midEnd))
             /\ treble' = Smooth(treble, BandAverage(spectrum, midEnd, TrebleEnd))
             /\ energyHistory' = r.history
             /\ isBeat' = r.isBeat
             /\ lastBeatTime' = r.lastBeatTime
             /\ beatEnergy' = r.beatEnergy
             /\ now' = t
             /\ beatLog' = IF r.isBeat THEN Append(beatLog, t) ELSE beatLog
             /\ frames' = frames + 1
             /\ UNCHANGED <<analyser, audioElement, source, pending, isPlaying>>

(***************************************************************************)
(* The ParticleSystem of src/unnamed/part_000 (lines 627-1167).  Its       *)
(* constructor, setMorphSpeed, setAutoMorphOnBeat and toggleMorph assign   *)
(* what those of src/src/ParticleSystem.js assign; its update differs: a   *)
(* beat flips the direction without a random draw, the cooldown is 15      *)
(* ticks, and each particle has a morph factor that moves toward the goal  *)
(* of the direction.                                                       *)
(***************************************************************************)
Builds == {"ParticleSystem.js", "part_000"}

PauseArmPart000 == 15

\* createParticles(), line 722: new Float32Array(count)
FreshMorphFactors(count) == [i \in 1..count |-> 0]

\* a product in ten-thousandths, truncated to hundredths
Hundredths(x) == IF x >= 0 THEN x \div 100 ELSE -((-x) \div 100)

\* line 1043: the beat-triggered flip
BeatFlipsPart000(adIsBeat) ==
    adIsBeat /\ autoMorphOnBeat /\ morphPauseFrames <= 0

\* line 1054
MorphGoal(d) == IF d > 0 THEN 100 ELSE 0

\* line 1055: morphs[i] += (morphGoal - morphs[i]) * this.morphSpeed
MorphStep(m, d) == m + Hundredths((MorphGoal(d) - m) * morphSpeed)

\* the ceiling of a boosted colour component: 1.5
colorCeiling == 150

\* frequencyData = null: no spectrum is handed to update

\* the defaults of the destructuring of audioData, lines 1014-1025, with
\* isBeat = b: reactivity in tenths, mid and attenuation in hundredths
QuietAudio(b) ==
    [isBeat |-> b, frequencyData |-> NoData, mid |-> 0, reactivity |-> 10,
     attenuation |-> 95]

\* lines 1112-1113: (frequencyData[floor(i / count * length)] || 0), a byte
FreqByte(frequencyData, i) ==
    LET v == DataAt(frequencyData, (i * bufferLength) \div params.count)
    IN  IF IsNum(v) THEN v ELSE 0

\* lines 1116-1117: colorBoost = 1 + freqValue * reactivity * 0.6
\*                              + mid * reactivity * 0.4, in 1/510000
ColorBoost(byte, midLevel, reactivity) ==
    510000 + 120 * byte * reactivity + 204 * midLevel * reactivity

\* a boosted component that is not capped
Uncapped(original, boost) == (original * boost) \div 510000

\* lines 1118-1126: Math.min(originalColors[k] * colorBoost, 1.5)
Boosted(original, boost) ==
    JsMin((original * boost) \div 510000, colorCeiling)

\* a fade that leaves the baseline out
AttenuatedToBlack(value, original, attenuation) ==
    (value * attenuation) \div 100

\* lines 1129-1137: colors[k] * attenuation + originalColors[k] * (1 - attenuation)
Attenuated(value, original, attenuation) ==
    (value * attenuation + original * (100 - attenuation)) \div 100

\* the colour write of particle i, component written at index k
ColorWrite(k, audioData) ==
    IF audioData.frequencyData # NoData
    THEN Boosted(originalColors[k],
                 ColorBoost(FreqByte(audioData.frequencyData, (k - 1) \div 3),
                            audioData.mid, audioData.reactivity))
    ELSE Attenuated(colorValues[k], originalColors[k], audioData.attenuation)

\* the radius beyond which a scatter position is pulled back: 8, in
\* thousandths
pullRadius == 8000
\* 1 - pull, in hundredths: 0.99
pullKeep == 99

\* lines 1088-1090: the scatter position moves by velocity plus turbulence;
\* drift is the change of its distance from the origin (the distance itself
\* when the step carries the particle through the origin)
Moved(dist, drift) == IF dist + drift >= 0 THEN dist + drift ELSE -(dist + drift)

\* a boundary that never pulls
NotPulledBack(dist) == dist

\* lines 1093-1104: if (dist > 8) each coordinate *= 1 - pull
PulledBack(dist) ==
    IF dist > pullRadius THEN (dist * pullKeep) \div 100 ELSE dist

\* update(audioData), lines 1011-1153.  The scatter positions drift by a
\* finite velocity and a finite noise term and are copied to the position
\* buffer; the colour write keeps which routine coloured each particle;
\* drift is the step of particle 0 along its radius in this tick.
UpdatePart000(audioData, drift) ==
    LET flip == BeatFlipsPart000(audioData.isBeat)
        d1 == IF flip THEN morphDirection * (-1) ELSE morphDirection
        p1 == IF flip THEN PauseArmPart000 ELSE morphPauseFrames
    IN  /\ morphDirection' = d1
        /\ morphPauseFrames' = IF p1 > 0 THEN p1 - 1 ELSE p1
        /\ morphFactors' = [i \in DOMAIN morphFactors |->
                               MorphStep(morphFactors[i], d1)]
        /\ scatterPositions' = [k \in DOMAIN scatterPositions |->
                                   LerpClass(scatterPositions[k], "fin", TRUE)]
        /\ positions' = scatterPositions'
        /\ scatterDist' = PulledBack(Moved(scatterDist, drift))
        /\ colorValues' = [k \in DOMAIN colorValues |-> ColorWrite(k, audioData)]
        /\ lastOp' = "update"
        /\ sinceFlip' = IF flip THEN 0
                        ELSE IF sinceFlip \in 0..(PauseArmPart000 - 1)
                        THEN sinceFlip + 1
                        ELSE sinceFlip
        /\ flips' = IF flip /\ flips < 2 THEN flips + 1 ELSE flips
        /\ tog' = -1
        /\ UNCHANGED <<params, modelPositions, colors, mouse, morphTarget,
                       morphSpeed, autoMorphOnBeat, originalColors>>

\* the components _applyGradientColors (lines 777-789) and _applyModelColors
\* (791-808, the white of line 916 or a flat material colour) write
GradientValues == [k \in 1..(3 * params.count) |-> settings.gradient]
MaterialValues == [k \in 1..(3 * params.count) |-> 100]

\* the components _applyColors() writes, to colors and to originalColors
ApplyColorValues(colorMode, hasModelColors) ==
    IF colorMode = "model" /\ hasModelColors THEN MaterialValues
    ELSE GradientValues

\* createParticles(), lines 696-697: the targets start as the scatter positions
FreshTargets(count) == [k \in 1..(3 * count) |-> "scatter"]

\* _applyColors(), lines 759-775: the routine that colours the particles;
\* hasModelColors is this.modelColors.length > 0
ApplyColors(colorMode, hasModelColors) ==
    IF colorMode = "model" /\ hasModelColors
    THEN [i \in DOMAIN colors |-> "material"]
    ELSE [i \in DOMAIN colors |-> "palette"]

\* setModel(m, {colorMode: cm}), lines 858-927, for a scene m without mesh
\* vertex ("empty") or with vertices ("shape"); setModel always leaves at
\* least one colour (white) in this.modelColors
SetModelPart000(m, cm) ==
    /\ loadedModel' = m
    /\ targetPositions' = IF m = "shape"        \* _buildTargetPositions()
                          THEN [k \in DOMAIN targetPositions |-> "vertex"]
                          ELSE targetPositions
    /\ colors' = IF cm = "model"
                 THEN ApplyColors(settings.colorMode, TRUE)
                 ELSE colors
    /\ colorValues' = IF cm = "model"
                      THEN ApplyColorValues(settings.colorMode, TRUE)
                      ELSE colorValues
    /\ originalColors' = IF cm = "model" THEN colorValues' ELSE originalColors
    /\ lastOp' = "setModel"
    /\ tog' = -1
    /\ UNCHANGED <<params, positions, scatterPositions, modelPositions, mouse,
                   morphTarget, morphSpeed, autoMorphOnBeat, morphDirection,
                   morphPauseFrames, sinceFlip, flips, build, scatterDist, morphFactors,
                   settings>>

\* updateColorMode({colorMode: cm}), lines 958-963
UpdateColorMode(cm) ==
    /\ settings' = [settings EXCEPT !.colorMode = cm]
    /\ colors' = ApplyColors(cm, loadedModel # "null")
    /\ colorValues' = ApplyColorValues(cm, loadedModel # "null")
    /\ originalColors' = colorValues'
    /\ lastOp' = "updateColorMode"
    /\ tog' = -1
    /\ UNCHANGED <<params, positions, scatterPositions, modelPositions, mouse,
                   morphTarget, morphSpeed, autoMorphOnBeat, morphDirection,
                   morphPauseFrames, sinceFlip, flips, build, scatterDist, morphFactors,
                   loadedModel, targetPositions>>

\* getMorphState(), lines 1159-1166 (part_000) and 592-594: the morph scalar
GetMorphState ==
    IF build = "part_000"
    THEN IF Len(morphFactors) = 0 THEN 0
         ELSE SeqSum(morphFactors) \div Len(morphFactors)
    ELSE morphTarget

\* the targets hold a shape: vertices have been sampled into them
ShapeLoaded ==
    IF build = "part_000"
    THEN \E k \in DOMAIN targetPositions : targetPositions[k] = "vertex"
    ELSE modelPositions # NULL

\* a component of the gradient of settings.colorStart / colorEnd, 0.5
gradientDefault == 50

\* createParticles(), lines 702-705: _applyColors() in gradient mode
FreshColorValues(count, level) == [k \in 1..(3 * count) |-> level]

VariantInit ==
    /\ build \in Builds
    /\ scatterDist = 0
    /\ morphFactors = IF build = "part_000"
                      THEN FreshMorphFactors(InitCount) ELSE <<>>
    /\ loadedModel = "null"
    /\ targetPositions = IF build = "part_000"
                         THEN FreshTargets(InitCount) ELSE <<>>
    /\ colorValues = IF build = "part_000"
                     THEN FreshColorValues(InitCount, gradientDefault) ELSE <<>>
    /\ originalColors = colorValues
    /\ settings = [colorMode |-> "gradient", gradient |-> gradientDefault]

\* the application of src/src: the ParticleSystem of src/src/ParticleSystem.js
VariantSrc ==
    /\ build = "ParticleSystem.js"
    /\ scatterDist = 0
    /\ morphFactors = <<>>
    /\ loadedModel = "null"
    /\ targetPositions = <<>>
    /\ colorValues = <<>>
    /\ originalColors = <<>>
    /\ settings = [colorMode |-> "gradient", gradient |-> gradientDefault]

Init == PSInit /\ HistInit /\ AudioInit /\ ConfigInit /\ VariantSrc

\* a step of the particle system leaves the analyzer alone, and conversely
PSOnly == UNCHANGED <<audioVars, variantVars>>
AudioOnly == UNCHANGED <<psVars, histVars, variantVars, configVars>>

(***************************************************************************)
(* Spec: the morph controller of the particle system, for any caller and   *)
(* any audioData, at a fixed particle count.                               *)
(***************************************************************************)
Next ==
    \/ \E model \in Models : SetModel(model) /\ PSOnly
    \/ ToggleMorph /\ PSOnly
    \/ \E s \in Speeds : SetMorphSpeed(s) /\ PSOnly
    \/ \E b \in BOOLEAN : SetAutoMorphOnBeat(b) /\ PSOnly
    \/ UpdateAny /\ PSOnly

Spec == Init /\ [][Next]_vars

(***************************************************************************)
(* SpecBuffers: the buffers of the particle system under reconfiguration   *)
(* (shape changes, count changes, the pointer) with beat-free audioData.   *)
(***************************************************************************)
NextBuffers ==
    \/ \E model \in Models : SetModel(model) /\ PSOnly
    \/ ToggleMorph /\ PSOnly
    \/ \E s \in Speeds : SetMorphSpeed(s) /\ PSOnly
    \/ SetMouse /\ PSOnly
    \/ \E c \in Counts : UpdateParticleCount(c) /\ PSOnly
    \/ UpdateQuiet /\ PSOnly

SpecBuffers == Init /\ [][NextBuffers]_vars

(***************************************************************************)
(* SpecAudio: the analyzer on its own, polled once per frame; one file is  *)
(* loaded at a time.                                                       *)
(***************************************************************************)
AudioTick ==
    \E spectrum \in Spectra, gap \in FrameGaps :
        /\ frames < MaxFrames
        /\ AnalyzerUpdate(spectrum, gap)
        /\ AudioOnly

NextAudio ==
    \/ pending = {} /\ LoadAudioStart /\ AudioOnly
    \/ \E e \in pending : LoadAudioDone(e) /\ AudioOnly
    \/ Play /\ AudioOnly
    \/ Pause /\ AudioOnly
    \/ AudioTick

SpecAudio == Init /\ [][NextAudio]_vars

(***************************************************************************)
(* SpecLoads: the analyzer when a file may be chosen while an earlier      *)
(* loadAudio still awaits canplaythrough (the change listener of the file  *)
(* input starts a load on every selection).                                *)
(***************************************************************************)
NextLoads ==
    \/ LoadAudioStart /\ AudioOnly
    \/ \E e \in pending : LoadAudioDone(e) /\ AudioOnly
    \/ Play /\ AudioOnly
    \/ Pause /\ AudioOnly
    \/ AudioTick

SpecLoads == Init /\ [][NextLoads]_vars

(***************************************************************************)
(* SpecApp: the application of src/src/main.js.  App.animate polls the     *)
(* analyzer and then updates the particles with                            *)
(* {bass, mid, treble, isBeat, ...}; it passes no `beat` property.         *)
(***************************************************************************)
\* a getter that fills the array again from the analyser
GetFrequencyDataFresh(data, live) ==
    IF ~analyser \/ ~isPlaying THEN NoData ELSE live

\* getFrequencyData(), lines 751-755: the array update() filled (data); what
\* the analyser holds by now (live) is not read
GetFrequencyData(data, live) ==
    IF ~analyser \/ ~isPlaying THEN NoData ELSE data

\* getAverageFrequency(), lines 757-764, in hundredths of a byte level
GetAverageFrequency(data) ==
    IF ~analyser \/ ~isPlaying THEN 0
    ELSE IF bufferLength = 0 THEN NaN
    ELSE (BinsSum(data, 0, bufferLength) * 100) \div bufferLength

\* App.animate(), lines 365-426: update() reads spectrum from the analyser;
\* live is what the analyser holds when the getters run
Animate(spectrum, live, gap, rndBack, hits) ==
    /\ AnalyzerUpdate(spectrum, gap)
    /\ handed' =
         [tick |-> 1 - handed.tick,
          reads |-> frames' - frames,
          audioLevel |-> IF isPlaying THEN GetAverageFrequency(dataArray')
                         ELSE 0,
          frequencyData |-> IF isPlaying
                            THEN GetFrequencyData(dataArray', live)
                            ELSE NoData,
          bass |-> bass', mid |-> mid', treble |-> treble',
          isBeat |-> isBeat']
    /\ Update(handed'.isBeat, FALSE, FALSE, rndBack, hits)
    /\ UNCHANGED <<variantVars, bufferLength, smoothing, scenario>>

\* App.toggleAudio(), lines 319-328
ToggleAudio == IF isPlaying THEN Pause ELSE Play

NextApp ==
    \/ pending = {} /\ LoadAudioStart /\ AudioOnly
    \/ \E e \in pending : LoadAudioDone(e) /\ AudioOnly
    \/ ToggleAudio /\ AudioOnly
    \/ \E model \in {"empty", "shape"} : SetModel(model) /\ PSOnly
    \/ ToggleMorph /\ PSOnly
    \/ \E b \in BOOLEAN : SetAutoMorphOnBeat(b) /\ PSOnly
    \/ \E spectrum \in Spectra, gap \in FrameGaps :
         \E rndBack \in BackDraws, hits \in SUBSET CanHit :
            /\ frames < MaxAppFrames
            /\ Animate(spectrum, spectrum, gap, rndBack, hits)

SpecApp == Init /\ [][NextApp]_vars

(***************************************************************************)
(* SpecTick: the animation loop and the audio controls of the             *)
(* application; between update() and the getters of one tick the analyser  *)
(* may have moved on to another spectrum.                                  *)
(***************************************************************************)
MaxTickFrames == 3           \* analysed frames in a run of SpecTick

NextTick ==
    \/ pending = {} /\ LoadAudioStart /\ AudioOnly
    \/ \E e \in pending : LoadAudioDone(e) /\ AudioOnly
    \/ ToggleAudio /\ AudioOnly
    \/ \E spectrum \in Spectra, live \in Spectra, gap \in FrameGaps :
         \E rndBack \in BackDraws, hits \in SUBSET CanHit :
            /\ frames < MaxTickFrames
            /\ Animate(spectrum, live, gap, rndBack, hits)

SpecTick == Init /\ [][NextTick]_vars

(***************************************************************************)
(* SpecBands: the band levels of the analyzer for an analyser of any       *)
(* spectrum length and any smoothing factor in (0,1), over byte spectra.   *)
(***************************************************************************)
MaxBandFrames == 3           \* analysed frames in a run of SpecBands

Lengths == {0, 7, 20, 41, 42, 128, 256}
SmoothingFactors == {1, 50, 82, 99}
BandSpectra == Spectra \cup {[bass |-> 255, mid |-> 255, treble |-> 255]}

InitBands ==
    /\ PSInit /\ HistInit /\ AudioInit /\ VariantSrc
    /\ bufferLength \in Lengths
    /\ smoothing \in SmoothingFactors
    /\ scenario = "none"
    /\ handed = NoHandOver

NextBands ==
    \/ pending = {} /\ LoadAudioStart /\ AudioOnly
    \/ \E e \in pending : LoadAudioDone(e) /\ AudioOnly
    \/ Play /\ AudioOnly
    \/ Pause /\ AudioOnly
    \/ \E spectrum \in BandSpectra :
         /\ frames < MaxBandFrames
         /\ AnalyzerUpdate(spectrum, beatMinInterval + 1)
         /\ AudioOnly

SpecBands == InitBands /\ [][NextBands]_vars

(***************************************************************************)
(* SpecColors: the colour write of the part_000 update, for any gradient   *)
(* colour, spectrum, mid level, reactivity and attenuation.                *)
(***************************************************************************)
ColorModes == {"gradient", "model"}
ColorLevels == {0, 50, 100}
MidLevels == {0, 50, 100, 300}
Reactivities == {0, 10, 20, 50}
Attenuations == {0, 50, 95}

AudioInputs ==
    [isBeat : {FALSE}, frequencyData : {NoData} \cup BandSpectra,
     mid : MidLevels, reactivity : Reactivities, attenuation : Attenuations]

InitColors ==
    /\ PSInit /\ HistInit /\ AudioInit /\ ConfigInit
    /\ build = "part_000"
    /\ scatterDist = 0
    /\ morphFactors = FreshMorphFactors(InitCount)
    /\ loadedModel = "null"
    /\ targetPositions = FreshTargets(InitCount)
    /\ \E level \in ColorLevels :
          /\ settings = [colorMode |-> "gradient", gradient |-> level]
          /\ colorValues = FreshColorValues(InitCount, level)
    /\ originalColors = colorValues

NextColors ==
    \/ /\ \E m \in {"empty", "shape"}, cm \in ColorModes : SetModelPart000(m, cm)
       /\ UNCHANGED audioVars
    \/ /\ \E cm \in ColorModes : UpdateColorMode(cm)
       /\ UNCHANGED audioVars
    \/ /\ \E audioData \in AudioInputs : UpdatePart000(audioData, 0)
       /\ UNCHANGED <<audioVars, build, shapeVars>>

SpecColors == InitColors /\ [][NextColors]_vars

(***************************************************************************)
(* SpecFade: the colours of the part_000 ParticleSystem, left boosted by a *)
(* tick with frequencyData, under ticks without frequencyData and with any *)
(* attenuation in [0,1).                                                   *)
(***************************************************************************)
FadeInputs ==
    { [QuietAudio(FALSE) EXCEPT !.attenuation = a] : a \in Attenuations }

\* the largest of Attenuations, in hundredths
MaxAttenuation ==
    CHOOSE a \in Attenuations : \A b \in Attenuations : b <= a

InitFade ==
    /\ PSInit /\ HistInit /\ AudioInit /\ ConfigInit
    /\ build = "part_000"
    /\ scatterDist = 0
    /\ morphFactors = FreshMorphFactors(InitCount)
    /\ loadedModel = "null"
    /\ targetPositions = FreshTargets(InitCount)
    /\ \E level \in ColorLevels :
          /\ settings = [colorMode |-> "gradient", gradient |-> level]
          /\ originalColors = FreshColorValues(InitCount, level)
    /\ \E data \in BandSpectra, m \in MidLevels, r \in Reactivities :
          colorValues =
             [k \in DOMAIN originalColors |->
                 Boosted(originalColors[k],
                         ColorBoost(FreqByte(data, (k - 1) \div 3), m, r))]

NextFade ==
    /\ \E audioData \in FadeInputs : UpdatePart000(audioData, 0)
    /\ UNCHANGED <<audioVars, build, shapeVars>>

SpecFade == InitFade /\ [][NextFade]_vars

(***************************************************************************)
(* SpecDrift: the scatter position of one particle of the part_000         *)
(* ParticleSystem under update ticks whose displacement (velocity plus     *)
(* turbulence) is at most MaxDrift along the radius, inward or outward.    *)
(***************************************************************************)
MaxDrift == 100              \* largest displacement per tick, in thousandths

Drifts == {-MaxDrift, -1, 0, 1, MaxDrift}
StartDists == {0, 5000, 8660}  \* (Math.random() - 0.5) * 10 per coordinate

\* where the pull of 1% balances the largest outward step
DriftBound ==
    (IF pullRadius > pullKeep * MaxDrift THEN pullRadius
     ELSE pullKeep * MaxDrift) + MaxDrift

InitDrift ==
    /\ PSInit /\ HistInit /\ AudioInit /\ ConfigInit
    /\ build = "part_000"
    /\ scatterDist \in StartDists
    /\ morphFactors = FreshMorphFactors(InitCount)
    /\ loadedModel = "null"
    /\ targetPositions = FreshTargets(InitCount)
    /\ colorValues = FreshColorValues(InitCount, gradientDefault)
    /\ originalColors = colorValues
    /\ settings = [colorMode |-> "gradient", gradient |-> gradientDefault]

NextDrift ==
    /\ \E drift \in Drifts : UpdatePart000(QuietAudio(FALSE), drift)
    /\ UNCHANGED <<audioVars, build, shapeVars>>

SpecDrift == InitDrift /\ [][NextDrift]_vars

(***************************************************************************)
(* SpecScenarios: the analyzer, loaded and playing, fed a scripted         *)
(* spectrum frame by frame.  "silence": 256 zeros on each of 100 frames.   *)
(* "spike": 60 frames of bass energy 0.1 (bass bins at 26, the nearest     *)
(* byte level), one frame of bass energy 1.0 (bass bins at 255), then      *)
(* frames of 0.1 again.                                                    *)
(***************************************************************************)
SilentFrames == 100          \* frames of the silence scenario
QuietFrames == 60            \* frames before the spike
TailFrames == 3              \* frames after the spike

SpikeFrame == QuietFrames + 1
ScenarioGaps == {17, 201}    \* ms between frames: 60 fps, or a slow frame

QuietSpectrum == [bass |-> 26, mid |-> 0, treble |-> 0]
SpikeSpectrum == [bass |-> 255, mid |-> 0, treble |-> 0]
SilentSpectrum == [bass |-> 0, mid |-> 0, treble |-> 0]

\* the spectrum of frame number f
Script(f) ==
    IF scenario = "silence" THEN SilentSpectrum
    ELSE IF f = SpikeFrame THEN SpikeSpectrum
    ELSE QuietSpectrum

ScriptLength ==
    IF scenario = "silence" THEN SilentFrames ELSE SpikeFrame + TailFrames

InitScenarios ==
    /\ PSInit /\ HistInit /\ AudioInit /\ VariantSrc
    /\ bufferLength = frequencyBinCount
    /\ smoothing = smoothingDefault
    /\ scenario \in {"silence", "spike"}
    /\ handed = NoHandOver

NextScenarios ==
    \/ audioElement = 0 /\ LoadAudioStart /\ AudioOnly
    \/ \E e \in pending : LoadAudioDone(e) /\ AudioOnly
    \/ ~isPlaying /\ Play /\ AudioOnly
    \/ \E gap \in ScenarioGaps :
         /\ analyser /\ isPlaying
         /\ frames < ScriptLength
         /\ AnalyzerUpdate(Script(frames + 1), gap)
         /\ AudioOnly

SpecScenarios == InitScenarios /\ [][NextScenarios]_vars

(***************************************************************************)
(* SpecVariants: the morph controller of either version of the             *)
(* ParticleSystem class, for any caller and any per-tick beat flags.       *)
(***************************************************************************)
InitVariants == PSInit /\ HistInit /\ AudioInit /\ ConfigInit /\ VariantInit

NextVariants ==
    \/ build = "ParticleSystem.js" /\ Next
    \/ build = "part_000" /\ ToggleMorph /\ PSOnly
    \/ build = "part_000" /\ \E s \in Speeds : SetMorphSpeed(s) /\ PSOnly
    \/ build = "part_000" /\ \E b \in BOOLEAN : SetAutoMorphOnBeat(b) /\ PSOnly
    \/ /\ build = "part_000"
       /\ \E adIsBeat \in BOOLEAN : UpdatePart000(QuietAudio(adIsBeat), 0)
       /\ UNCHANGED <<audioVars, build, shapeVars>>

SpecVariants == InitVariants /\ [][NextVariants]_vars

(***************************************************************************)
(* SpecShapes: either version of the ParticleSystem class under shape      *)
(* loading (null, a scene without vertices, a shape), colour-mode changes, *)
(* toggles and update ticks of any beat flags.                             *)
(***************************************************************************)
NextShapes ==
    \/ build = "ParticleSystem.js" /\ Next
    \/ /\ build = "part_000"
       /\ \E m \in {"empty", "shape"}, cm \in ColorModes : SetModelPart000(m, cm)
       /\ UNCHANGED audioVars
    \/ /\ build = "part_000"
       /\ \E cm \in ColorModes : UpdateColorMode(cm)
       /\ UNCHANGED audioVars
    \/ build = "part_000" /\ ToggleMorph /\ PSOnly
    \/ /\ build = "part_000"
       /\ \E adIsBeat \in BOOLEAN : UpdatePart000(QuietAudio(adIsBeat), 0)
       /\ UNCHANGED <<audioVars, build, shapeVars>>

SpecShapes == InitVariants /\ [][NextShapes]_vars

(***************************************************************************)
(* Properties of the particle system.                                      *)
(***************************************************************************)
\* C2: at the end of every update tick the morph scalar is a number within
\* [0,1], whatever setModel, toggleMorph, setMorphSpeed and
\* setAutoMorphOnBeat calls came before.
C2_MorphWithinUnitInterval ==
    lastOp = "update" =>
        IsNum(morphTarget) /\ morphTarget >= 0 /\ morphTarget <= 100

\* C3: after updateParticleCount(n) with a shape loaded, the target-position
\* array has 3 * n entries, so the next update reads only entries that exist.
C3_TargetsResampledOnCountChange ==
    (lastOp = "updateParticleCount" /\ modelPositions # NULL) =>
        Len(modelPositions) = 3 * params.count

\* C4: every entry of the positions buffer is a finite number after any
\* sequence of setModel, toggleMorph, setMorphSpeed, setMouse,
\* updateParticleCount and update calls.
C4_PositionsFinite ==
    \A k \in DOMAIN positions : positions[k] = "fin"

\* C7: toggleMorph() sets the direction from the morph position: -1 when the
\* scalar is >= 0.5, otherwise +1, whatever the direction was.
C7_ToggleFollowsPosition ==
    [][ToggleMorph =>
        morphDirection' = ToggleByPosition(morphTarget, morphDirection)]_vars

C9_DirectionZeroAtBound ==
    (lastOp = "update" /\ morphTarget \in {0, 100}) => morphDirection = 0

\* C10: with a shape loaded and morph speed 0.1, a toggleMorph() that sets
\* direction +1 at the scattered end, followed by update ticks, leaves the
\* scalar below 1.0 after each of the first 9 ticks and at 1.0 with direction
\* 0 after the 10th.
C10_TenTicksToFormed ==
    /\ tog \in 1..9 => JsLt(morphTarget, 100)
    /\ tog = 10 => (morphTarget = 100 /\ morphDirection = 0)

(***************************************************************************)
(* Properties of the analyzer and of the application.                      *)
(***************************************************************************)
\* C1: for any energy sequence and any non-decreasing clock, no two frames
\* that report isBeat have timestamps beatMinInterval (200 ms) or less apart.
C1_BeatsApartMoreThanInterval ==
    \A i, j \in DOMAIN beatLog :
        i < j => beatLog[j] - beatLog[i] > beatMinInterval

\* two frames have reported a beat
C1_TwoBeats == Len(beatLog) >= 2

\* C5: with auto-morph-on-beat enabled, a frame of App.animate in which the
\* analyzer reports isBeat while the cooldown counter is not active flips
\* the morph direction and arms the cooldown.
C5_BeatFlipsAndArms ==
    [][(/\ frames' = frames + 1
        /\ isBeat'
        /\ autoMorphOnBeat
        /\ morphPauseFrames <= 0)
       => (/\ morphDirection' = morphDirection * (-1)
           /\ morphPauseFrames' > 0)]_vars

\* the cooldown a beat-triggered flip arms in the version at hand
Cooldown == IF build = "part_000" THEN PauseArmPart000 ELSE PauseArm

\* C6: in either version of update, a beat-triggered flip comes at least
\* the armed cooldown (60 ticks, 15 in part_000) after the previous one, and
\* a tick entered with a positive cooldown counter leaves the direction
\* unchanged whatever its beat flags.
C6_FlipsKeepCooldown ==
    [][lastOp' = "update" =>
        /\ (sinceFlip' = 0 /\ sinceFlip # -1) => sinceFlip + 1 >= Cooldown
        /\ morphPauseFrames > 0 => morphDirection' = morphDirection]_vars

\* a second beat-triggered flip has just happened, in src/src/ParticleSystem.js
C6_SecondFlip ==
    /\ build = "ParticleSystem.js"
    /\ flips = 2
    /\ sinceFlip = 0
    /\ morphPauseFrames = PauseArm - 1


\* C11: whenever no target shape is loaded, the morph scalar is 0 and the
\* morph direction is 0 at the end of every update tick and after
\* setModel(null), whatever toggleMorph calls and beats came before.
C11_NoShapeAtRest ==
    [][(modelPositions' = NULL /\ (lastOp' = "update" \/ SetModel("null")))
       => (morphTarget' = 0 /\ morphDirection' = 0)]_vars


\* C12: setModel with a scene that yields zero vertices leaves the target
\* positions, the morph scalar, the morph direction and the colours as they
\* were (nothing is sampled), and while no shape has been loaded the morph
\* scalar is 0 at the end of every update tick.
C12_EmptyShapeIsNoOp ==
    [][/\ (\/ build = "ParticleSystem.js" /\ SetModel("empty")
           \/ build = "part_000"
              /\ \E cm \in ColorModes : SetModelPart000("empty", cm))
          => UNCHANGED <<modelPositions, targetPositions, morphTarget,
                         morphFactors, morphDirection, colors>>
       /\ (lastOp' = "update" /\ ~ShapeLoaded') => GetMorphState' = 0]_vars


(***************************************************************************)
(* Properties of the band levels.                                          *)
(***************************************************************************)
\* the bins _bandAverage(start, end) reads
Bins(start, end) == start..(end - 1)

ZeroSpectrum(data) == data.bass = 0 /\ data.mid = 0 /\ data.treble = 0

C15_SmoothedWithinUnit ==
    bufferLength > midEnd =>
        \A level \in {bass, mid, treble} :
            IsNum(level) /\ level >= 0 /\ level <= 10000

\* three frames of a full-scale spectrum have been smoothed with a factor
\* other than the default
C15_LoudFrames ==
    /\ bufferLength = frequencyBinCount
    /\ smoothing # smoothingDefault
    /\ frames = 3
    /\ dataArray = [bass |-> 255, mid |-> 255, treble |-> 255]
    /\ bass > 5000


(***************************************************************************)
(* Properties of the part_000 colour write.                                *)
(***************************************************************************)
\* C16: after every update tick of part_000, and so after every tick in
\* which frequencyData is supplied, no colour component exceeds the ceiling
\* 1.5, whatever the bin value, the mid level, the reactivity and the
\* original colour.
C16_BoostedBelowCeiling ==
    lastOp = "update" =>
        \A k \in DOMAIN colorValues : colorValues[k] <= colorCeiling

\* an update has written a component the ceiling cut off
C16_CapEngaged ==
    /\ lastOp = "update"
    /\ \E k \in DOMAIN colorValues :
          /\ colorValues[k] = colorCeiling
          /\ originalColors[k] = 100


(***************************************************************************)
(* Properties of the beat flag.                                            *)
(***************************************************************************)
\* C17: isBeat is a single-frame pulse: after an update that analyses a
\* frame it is true only if that frame's own energy sample met the onset
\* conditions (above the threshold and the adaptive average, above the
\* decayed beat energy, refractory interval over), and an update with no
\* analyser or with audio not playing sets it false.
C17_BeatIsPulse ==
    [][/\ frames' = frames + 1 =>
            LET energy == energyHistory'[Len(energyHistory')]
            IN  isBeat' => /\ AboveAdaptive(energyHistory', energy)
                           /\ JsGt(energy * 100, beatEnergy)
                           /\ now' - lastBeatTime > beatMinInterval
       /\ ((~analyser \/ ~isPlaying)
           /\ \E spectrum \in Spectra, gap \in FrameGaps :
                 AnalyzerUpdate(spectrum, gap))
          => ~isBeat']_vars

\* a frame analysed after a beat frame has cleared the flag
C17_PulseOver ==
    /\ beatLog # <<>>
    /\ isPlaying
    /\ now > beatLog[Len(beatLog)]
    /\ dataArray.bass > 0
    /\ ~isBeat


\* C18: a spectrum of 256 zeros on each of 100 consecutive update ticks,
\* from the initial state and while playing, leaves bass = mid = treble = 0
\* after every tick and isBeat false on every tick.
C18_SilenceStaysSilent ==
    (scenario = "silence" /\ frames >= 1) =>
        (bass = 0 /\ mid = 0 /\ treble = 0 /\ ~isBeat /\ beatLog = <<>>)

\* the hundredth silent frame has been analysed
C18_HundredFrames == scenario = "silence" /\ frames = SilentFrames

\* C19: 60 ticks of bass energy 0.1, then one tick of bass energy 1.0 more
\* than beatMinInterval after the start: isBeat is true on the spike tick
\* and false on every other tick, the ticks of 0.1 after the spike included.
C19_BeatOnSpikeOnly ==
    (scenario = "spike" /\ frames >= 1) =>
        /\ isBeat <=> frames = SpikeFrame
        /\ frames > SpikeFrame => Len(beatLog) = 1

\* the ticks after the spike have been analysed
C19_AfterSpike ==
    /\ scenario = "spike"
    /\ frames = SpikeFrame + TailFrames
    /\ Len(energyHistory) = energyHistoryMax


(***************************************************************************)
(* Properties of the animation tick                                        *)
(***************************************************************************)
\* the levels update() computes from the array `data` in the current state
LevelsOf(data, t) ==
    [bass |-> Smooth(bass, BandAverage(data, 0, bassEnd)),
     mid |-> Smooth(mid, BandAverage(data, bassEnd, midEnd)),
     treble |-> Smooth(treble, BandAverage(data, midEnd, TrebleEnd)),
     isBeat |-> DetectBeat(BandSum(data, 0, bassEnd), t).isBeat,
     audioLevel |-> (BinsSum(data, 0, bufferLength) * 100) \div bufferLength]

\* C20 as stated: in each App.animate tick the spectrum is read from the
\* analyser exactly once, in audioAnalyzer.update(), and what is handed to
\* particleSystem.update derives from that read.
C20_ExactlyOneReadPerTick ==
    [][handed'.tick # handed.tick =>
          /\ handed'.reads = 1
          /\ handed'.frequencyData = dataArray']_vars

\* C20, amended: in each App.animate tick the spectrum is read at most once:
\* once when the analyser exists and audio is playing, and then the
\* frequencyData handed to particleSystem.update is the array of that read
\* and bass, mid, treble, isBeat and the overall level are the ones computed
\* from that array; otherwise not at all, and then the overall level is 0,
\* frequencyData is null, isBeat is false and bass, mid and treble are those
\* of the tick before.
C20_AtMostOneReadPerTick ==
    [][handed'.tick # handed.tick =>
          /\ handed'.reads = (IF analyser /\ isPlaying THEN 1 ELSE 0)
          /\ handed'.reads = 1 =>
                LET data == handed'.frequencyData
                    from == LevelsOf(data, now')
                IN  /\ data = dataArray'
                    /\ handed'.bass = from.bass
                    /\ handed'.mid = from.mid
                    /\ handed'.treble = from.treble
                    /\ handed'.isBeat = from.isBeat
                    /\ handed'.audioLevel = from.audioLevel
          /\ handed'.reads = 0 =>
                /\ handed'.frequencyData = NoData
                /\ handed'.audioLevel = 0
                /\ ~handed'.isBeat
                /\ handed'.bass = bass
                /\ handed'.mid = mid
                /\ handed'.treble = treble]_vars

\* a tick that read a spectrum with sound in it and handed a beat over
C20_BeatHandedOver ==
    /\ handed.reads = 1
    /\ handed.frequencyData.bass > 0
    /\ handed.audioLevel > 0
    /\ handed.isBeat


(***************************************************************************)
(* Properties of the analysis state                                        *)
(***************************************************************************)
analysisVars == <<bass, mid, treble, energyHistory, beatEnergy, lastBeatTime,
                  isBeat>>

\* C21: the analysis state (bass, mid, treble, energyHistory, beatEnergy,
\* lastBeatTime, isBeat) is back at its initial values when loadAudio
\* completes for a new source, and play and pause leave all of it unchanged.
C21_LoadResetsAnalysis ==
    [][/\ (pending' # pending /\ pending' \subseteq pending) =>
             /\ bass' = 0 /\ mid' = 0 /\ treble' = 0
             /\ energyHistory' = <<>>
             /\ beatEnergy' = 0 /\ lastBeatTime' = 0
             /\ ~isBeat'
       /\ isPlaying' # isPlaying => UNCHANGED analysisVars]_vars


(***************************************************************************)
(* Properties of the per-particle morph factors (part_000)                 *)
(***************************************************************************)
\* C22: in the part_000 ParticleSystem, for every morph speed set through
\* setMorphSpeed and any sequence of toggleMorph calls, beats and update
\* ticks, every morphFactors[i] stays within [0,1].
C22_MorphFactorsWithinUnit ==
    build = "part_000" =>
        \A i \in DOMAIN morphFactors :
            morphFactors[i] >= 0 /\ morphFactors[i] <= 100


(***************************************************************************)
(* Properties of _detectBeat                                               *)
(***************************************************************************)
\* C23: an analysed tick sets isBeat true if and only if all three hold on
\* it: energy > max(beatThreshold, 1.4 * mean(energyHistory)), the history
\* including the current sample; energy > beatEnergy; and
\* now - lastBeatTime > beatMinInterval.  lastBeatTime changes only on ticks
\* where isBeat is set true.
C23_BeatIffAllThree ==
    [][/\ frames' = frames + 1 =>
             LET history == energyHistory'
                 n == Len(history)
                 energy == history[n]
                 static == beatThreshold * (bassEnd * 255) * n
                 adaptive == 140 * SeqSum(history)
             IN  isBeat' <=>
                    /\ energy * 100 * n > static
                    /\ energy * 100 * n > adaptive
                    /\ energy * 100 > beatEnergy
                    /\ now' - lastBeatTime > beatMinInterval
       /\ lastBeatTime' # lastBeatTime =>
             /\ isBeat' /\ frames' = frames + 1
             /\ lastBeatTime' = now']_vars

\* a tick has signalled a beat against a history of several samples
C23_BeatSignalled ==
    /\ isBeat /\ lastBeatTime = now
    /\ Len(energyHistory) >= 2
    /\ beatEnergy > 0


\* C24: after a signalled beat beatEnergy holds the triggering energy, and
\* on every later tick it is multiplied by beatDecay (0.98) whether or not a
\* beat fired, so that between two signalled beats it is non-increasing and
\* independent of the non-beat energy samples.
C24_BaselineDecays ==
    [][frames' = frames + 1 =>
          LET energy == energyHistory'[Len(energyHistory')]
          IN  IF isBeat'
              THEN beatEnergy' \in {energy * 100, energy * beatDecay}
              ELSE /\ beatEnergy' * 100 = beatEnergy * beatDecay
                   /\ beatEnergy' <= beatEnergy]_vars


\* C25: after a signalled beat, a slowly falling plateau (a non-increasing
\* sequence of bass energies that stays above the adaptive threshold) does
\* not signal another beat, even once the refractory interval has elapsed.
\* Stated for the tick that follows the beat tick.
C25_PlateauDoesNotRetrigger ==
    [][(/\ frames' = frames + 1
        /\ isBeat
        /\ LET energy == energyHistory'[Len(energyHistory')]
           IN  /\ energy <= energyHistory[Len(energyHistory)]
               /\ AboveAdaptive(energyHistory', energy))
       => ~isBeat']_vars


\* C26: after every _detectBeat call energyHistory has length at most
\* energyHistoryMax (60) and holds exactly the most recent min(k, 60) energy
\* samples in arrival order, k being the number of calls so far: when full,
\* the oldest sample is the one evicted.
C26_HistoryIsRecentSamples ==
    scenario # "none" =>
        LET n == Len(energyHistory)
        IN  /\ n <= energyHistoryMax
            /\ n = IF frames < energyHistoryMax THEN frames
                   ELSE energyHistoryMax
            /\ \A j \in 1..n :
                  energyHistory[j] = Script(frames - n + j).bass * bassEnd

\* the history is full, the spike is no longer its newest sample and the
\* first samples have been evicted
C26_SpikeMovedBack ==
    /\ scenario = "spike"
    /\ frames = SpikeFrame + 1
    /\ Len(energyHistory) = energyHistoryMax
    /\ energyHistory[energyHistoryMax - 1] = SpikeSpectrum.bass * bassEnd


(***************************************************************************)
(* Properties of the scatter positions (part_000)                          *)
(***************************************************************************)
\* C27: with a bounded displacement per tick, a particle's scatter position
\* stays within a fixed distance of the origin over arbitrarily many ticks;
\* a particle farther than radius 8 is scaled by 0.99 in that tick, never
\* reset or hard-clamped: a tick takes off no more than the displacement
\* and one hundredth of the distance.
C27_ScatterStaysBounded ==
    /\ [](scatterDist >= 0 /\ scatterDist <= DriftBound)
    /\ [][(scatterDist' + MaxDrift + 1) * 100 >= scatterDist * pullKeep]_vars

\* a particle beyond radius 8 after a tick that pulled it back
C27_BeyondRadius ==
    /\ lastOp = "update"
    /\ scatterDist > pullRadius + 10 * MaxDrift


(***************************************************************************)
(* Properties of the colour attenuation (part_000)                         *)
(***************************************************************************)
Distance(a, b) == IF a >= b THEN a - b ELSE b - a

\* C28: on every tick without frequencyData and with attenuation in [0,1)
\* each colour component becomes color * attenuation + originalColor *
\* (1 - attenuation): it lies between its previous value and originalColor,
\* never overshoots originalColor, and its distance to originalColor shrinks
\* by the attenuation factor each tick (so repeated ticks converge to
\* originalColor); originalColors is not modified by update.
C28_FadesTowardOriginal ==
    [][lastOp' = "update" =>
          /\ originalColors' = originalColors
          /\ \A k \in DOMAIN colorValues :
                LET old == colorValues[k]
                    new == colorValues'[k]
                    original == originalColors[k]
                IN  /\ IF old >= original
                       THEN new <= old /\ new >= original
                       ELSE new >= old /\ new <= original
                    /\ Distance(new, original) * 100
                          <= Distance(old, original) * MaxAttenuation]_vars

\* a boosted component part of the way back to its original colour
C28_PartWayBack ==
    /\ lastOp = "update"
    /\ \E k \in DOMAIN colorValues :
          /\ colorValues[k] > originalColors[k]
          /\ colorValues[k] < colorCeiling
          /\ originalColors[k] = 100


(***************************************************************************)
(* Properties of audio loading                                             *)
(***************************************************************************)
\* C29: isPlaying is true only while the current audio element has been
\* started by play() and not paused since: once loadAudio has replaced the
\* audio element, isPlaying is false until play() is called.
C29_NewElementNotPlaying ==
    [][audioElement' # audioElement => ~isPlaying']_vars


\* C30: when two loadAudio calls overlap, after both have settled exactly
\* one media-element source is connected, it was created from the current
\* audioElement, and no audio element has had a media source created for it
\* more than once: a completing loadAudio never creates a source from an
\* element the current source was already created from.
C30_OneSourcePerElement ==
    [][(pending' # pending /\ pending' \subseteq pending)
       => /\ source # audioElement
          /\ source' = audioElement']_vars

====
